---- MODULE Spec2Model ----
(***************************************************************************)
(* Model of whisplay_im_channel.py: the configuration holder               *)
(* (WhisplayIMConfig), the channel client (WhisplayIMChannel.poll / send / *)
(* _headers / _safe_json) and the command-line entry point (_build_parser  *)
(* / main).                                                                *)
(*                                                                         *)
(* Python values are tagged records, so that values of different Python    *)
(* types can be told apart (and compared) without mixing TLA+ types.       *)
(* Strings that the program only passes around (JSON string values, dict   *)
(* keys) are TLA+ strings; strings the program inspects character by       *)
(* character (the address, the token, a response body) are sequences of    *)
(* characters.                                                             *)
(***************************************************************************)
EXTENDS Integers, Sequences, FiniteSets, TLC

VARIABLES pc, argv, config, args, request, sent, response, result, stdout, calls

vars == <<pc, argv, config, args, request, sent, response, result, stdout, calls>>

(***************************************************************************)
(* Bounds of the model.                                                    *)
(***************************************************************************)
\* longest address (in characters of AddrChars) the wide configuration set holds
MaxAddrLen == 4
\* longest token (in characters of TokenChars) the wide configuration set holds
MaxTokenLen == 3
\* longest response body (in lexemes of BodyChars) the wide body set holds
MaxBodyLen == 3
\* number of poll/send calls made on one client
MaxCalls == 2

(***************************************************************************)
(* Python values.                                                          *)
(***************************************************************************)
PyNone == [t |-> "none"]
PyBool(b) == [t |-> "bool", b |-> b]
PyInt(n) == [t |-> "int", n |-> n]
\* a str whose content is opaque to the program
PyStr(s) == [t |-> "str", s |-> s]
\* a str held as its sequence of characters
PyText(cs) == [t |-> "str", chars |-> cs]
PyList(xs) == [t |-> "list", xs |-> xs]
\* a dict is the sequence of its items [k, v] in insertion order, keys distinct
PyDict(items) == [t |-> "dict", items |-> items]

EmptyDict == PyDict(<< >>)

IsNone(v) == v.t = "none"
IsStr(v) == v.t = "str"
IsList(v) == v.t = "list"
IsDict(v) == v.t = "dict"

\* Python truth value testing: None, False, 0, "", [] and {} are false
Truthy(v) ==
    CASE v.t = "none" -> FALSE
      [] v.t = "bool" -> v.b
      [] v.t = "int" -> v.n # 0
      [] v.t = "str" -> IF "s" \in DOMAIN v THEN v.s # "" ELSE v.chars # << >>
      [] v.t = "list" -> v.xs # << >>
      [] v.t = "dict" -> v.items # << >>

Keys(d) == {d.items[i].k : i \in 1..Len(d.items)}

HasKey(d, key) == key \in Keys(d)

\* dict.get(key): None when the key is absent
Get(d, key) ==
    IF HasKey(d, key)
    THEN d.items[CHOOSE i \in 1..Len(d.items) : d.items[i].k = key].v
    ELSE PyNone

\* d[key] = value: a new key is added last, a present key keeps its place
Put(d, key, value) ==
    IF HasKey(d, key)
    THEN PyDict([i \in 1..Len(d.items) |->
                    IF d.items[i].k = key
                    THEN [k |-> key, v |-> value]
                    ELSE d.items[i]])
    ELSE PyDict(Append(d.items, [k |-> key, v |-> value]))

(***************************************************************************)
(* Characters and str.strip / str.rstrip / str.startswith.                 *)
(* Address and token characters are TLA+ strings; " " is whitespace.       *)
(* A response body is a sequence of JSON lexemes [k, v].                   *)
(***************************************************************************)
IsSpaceChar(c) == c = " "

RECURSIVE LStripChars(_)
LStripChars(s) ==
    IF s # << >> /\ IsSpaceChar(Head(s)) THEN LStripChars(Tail(s)) ELSE s

RECURSIVE RStripChars(_)
RStripChars(s) ==
    IF s # << >> /\ IsSpaceChar(s[Len(s)])
    THEN RStripChars(SubSeq(s, 1, Len(s) - 1))
    ELSE s

\* str.strip() on an address or a token
StripChars(s) == RStripChars(LStripChars(s))

\* str.rstrip("/")
RECURSIVE RStripSlash(_)
RStripSlash(s) ==
    IF s # << >> /\ s[Len(s)] = "/"
    THEN RStripSlash(SubSeq(s, 1, Len(s) - 1))
    ELSE s

\* str.startswith(prefix)
StartsWith(s, prefix) ==
    /\ Len(s) >= Len(prefix)
    /\ SubSeq(s, 1, Len(prefix)) = prefix

EndsWithSlash(s) == s # << >> /\ s[Len(s)] = "/"

\* "http://" and "https://": the scheme name and the colon are one character
\* of the model, the two slashes are characters of their own
HttpScheme == <<"http:", "/", "/">>
HttpsScheme == <<"https:", "/", "/">>

(***************************************************************************)
(* JSON text.  A body is a sequence of lexemes: whitespace, punctuation,    *)
(* the literals null/true/false, numbers, string literals and characters   *)
(* that belong to no JSON value.  A long run of one punctuation character  *)
(* is held as the character and the length of the run.                     *)
(***************************************************************************)
W(c) == [k |-> "ws", v |-> c]
P(c) == [k |-> "p", v |-> c]
L(c) == [k |-> "lit", v |-> c]
N(n) == [k |-> "num", n |-> n]
\* a string literal with opaque content
S(s) == [k |-> "str", v |-> s]
\* a string literal whose content is a sequence of characters
SText(cs) == [k |-> "str", chars |-> cs]
X(c) == [k |-> "junk", v |-> c]
\* n > 1 times the punctuation character c, one after the other
Run(c, n) == [k |-> "run", v |-> c, n |-> n]

\* str.isspace: the form feed is whitespace for str.strip ...
IsSpace(c) == c.k = "ws"
\* ... but not for the JSON decoder, which skips only space, \t, \n and \r
IsJsonSpace(c) == c.k = "ws" /\ c.v \in {" ", "\t", "\n", "\r"}

IsP(c, p) == c.k = "p" /\ c.v = p

RECURSIVE LStrip(_)
LStrip(s) == IF s # << >> /\ IsSpace(Head(s)) THEN LStrip(Tail(s)) ELSE s

RECURSIVE RStrip(_)
RStrip(s) ==
    IF s # << >> /\ IsSpace(s[Len(s)])
    THEN RStrip(SubSeq(s, 1, Len(s) - 1))
    ELSE s

\* str.strip() on a response body
Strip(s) == RStrip(LStrip(s))

RECURSIVE SkipJsonSpace(_)
SkipJsonSpace(s) ==
    IF s # << >> /\ IsJsonSpace(Head(s)) THEN SkipJsonSpace(Tail(s)) ELSE s

\* the decoder's result: a value and the rest of the text, or the exception
\* the decoder raises (ValueError for text that is no JSON, RecursionError for
\* containers nested deeper than the interpreter lets the decoder recurse)
Fail == [ok |-> FALSE, exc |-> "ValueError"]
TooDeep == [ok |-> FALSE, exc |-> "RecursionError"]
Ok(val, rest) == [ok |-> TRUE, val |-> val, rest |-> rest]

\* the interpreter's recursion limit (sys.getrecursionlimit())
RecursionLimit == 1000

\* a text that starts with a run of n > 1 characters, with its first character
\* taken out of the run
Unrun(s) ==
    <<P(Head(s).v)>>
        \o (IF Head(s).n = 2 THEN <<P(Head(s).v)>> ELSE <<Run(Head(s).v, Head(s).n - 1)>>)
        \o Tail(s)

ScalarOf(c) ==
    CASE c.k = "num" -> PyInt(c.n)
      [] c.k = "str" -> IF "v" \in DOMAIN c THEN PyStr(c.v) ELSE PyText(c.chars)
      [] c.k = "lit" /\ c.v = "null" -> PyNone
      [] c.k = "lit" /\ c.v = "true" -> PyBool(TRUE)
      [] c.k = "lit" /\ c.v = "false" -> PyBool(FALSE)

RECURSIVE ParseValue(_, _), ParseElems(_, _, _), ParseMembers(_, _, _)

\* one JSON value at the start of s, after optional whitespace, inside depth
\* containers
ParseValue(s, depth) ==
    LET r == SkipJsonSpace(s) IN
    IF r = << >> THEN Fail
    ELSE LET c == Head(r) IN
         CASE c.k \in {"num", "str", "lit"} -> Ok(ScalarOf(c), Tail(r))
           [] c.k = "run" ->
                IF c.v = "[" /\ depth + c.n > RecursionLimit
                THEN TooDeep
                ELSE ParseValue(Unrun(r), depth)
           [] IsP(c, "[") ->
                LET q == SkipJsonSpace(Tail(r)) IN
                IF q # << >> /\ IsP(Head(q), "]")
                THEN Ok(PyList(<< >>), Tail(q))
                ELSE ParseElems(q, << >>, depth + 1)
           [] IsP(c, "{") ->
                LET q == SkipJsonSpace(Tail(r)) IN
                IF q # << >> /\ IsP(Head(q), "}")
                THEN Ok(EmptyDict, Tail(q))
                ELSE ParseMembers(q, EmptyDict, depth + 1)
           [] OTHER -> Fail

\* the elements of an array whose "[" is read: value ("," value)* "]"
ParseElems(s, acc, depth) ==
    LET e == ParseValue(s, depth) IN
    IF ~e.ok THEN e
    ELSE LET r == SkipJsonSpace(e.rest) IN
         IF r = << >> THEN Fail
         ELSE IF IsP(Head(r), ",")
              THEN ParseElems(Tail(r), Append(acc, e.val), depth)
         ELSE IF IsP(Head(r), "]") THEN Ok(PyList(Append(acc, e.val)), Tail(r))
         ELSE Fail

\* the members of an object whose "{" is read: string ":" value ("," ...)* "}"
ParseMembers(s, acc, depth) ==
    LET r == SkipJsonSpace(s) IN
    IF r = << >> \/ Head(r).k # "str" \/ "v" \notin DOMAIN Head(r) THEN Fail
    ELSE LET q == SkipJsonSpace(Tail(r)) IN
         IF q = << >> \/ ~IsP(Head(q), ":") THEN Fail
         ELSE LET e == ParseValue(Tail(q), depth) IN
              IF ~e.ok THEN e
              ELSE LET u == SkipJsonSpace(e.rest)
                       d == Put(acc, Head(r).v, e.val)
                   IN IF u = << >> THEN Fail
                      ELSE IF IsP(Head(u), ",") THEN ParseMembers(Tail(u), d, depth)
                      ELSE IF IsP(Head(u), "}") THEN Ok(d, Tail(u))
                      ELSE Fail

\* json.loads: one value and nothing but whitespace after it
Loads(s) ==
    LET e == ParseValue(s, 0) IN
    IF e.ok /\ SkipJsonSpace(e.rest) # << >> THEN Fail ELSE e

RECURSIVE Dumps(_), DumpsElems(_), DumpsItems(_)

\* json.dumps with the default separators ", " and ": "
Dumps(v) ==
    CASE v.t = "none" -> <<L("null")>>
      [] v.t = "bool" -> IF v.b THEN <<L("true")>> ELSE <<L("false")>>
      [] v.t = "int" -> <<N(v.n)>>
      [] v.t = "str" -> IF "s" \in DOMAIN v THEN <<S(v.s)>> ELSE <<SText(v.chars)>>
      [] v.t = "list" -> <<P("[")>> \o DumpsElems(v.xs) \o <<P("]")>>
      [] v.t = "dict" -> <<P("{")>> \o DumpsItems(v.items) \o <<P("}")>>

DumpsElems(xs) ==
    IF xs = << >> THEN << >>
    ELSE IF Len(xs) = 1 THEN Dumps(xs[1])
    ELSE Dumps(Head(xs)) \o <<P(","), W(" ")>> \o DumpsElems(Tail(xs))

DumpsItems(items) ==
    IF items = << >> THEN << >>
    ELSE LET one == <<S(Head(items).k), P(":"), W(" ")>> \o Dumps(Head(items).v) IN
         IF Len(items) = 1 THEN one
         ELSE one \o <<P(","), W(" ")>> \o DumpsItems(Tail(items))

(***************************************************************************)
(* WhisplayIMConfig                                                        *)
(***************************************************************************)
DefaultWaitSec == 30
DefaultTimeoutSec == 35

WhisplayIMConfig(ip, token, wait_sec, timeout_sec) ==
    [ip |-> ip, token |-> token, wait_sec |-> wait_sec, timeout_sec |-> timeout_sec]

\* the @property base_url
base_url(cfg) ==
    LET ip == StripChars(cfg.ip) IN
    IF StartsWith(ip, HttpScheme) \/ StartsWith(ip, HttpsScheme)
    THEN RStripSlash(ip)
    ELSE HttpScheme \o RStripSlash(ip)

(***************************************************************************)
(* WhisplayIMChannel: the pure parts                                       *)
(***************************************************************************)
PollPath == <<"/", "whisplay-im", "/", "poll">>
SendPath == <<"/", "whisplay-im", "/", "send">>

\* (self.config.token or "").strip()
TrimmedToken(cfg) ==
    StripChars(IF Truthy(cfg.token) THEN cfg.token.chars ELSE << >>)


\* _headers without the strip(): a blank token counts as a token
_headers_untrimmed(cfg) ==
    LET headers == PyDict(<<[k |-> "Content-Type", v |-> PyStr("application/json")]>>)
        token == IF Truthy(cfg.token) THEN cfg.token.chars ELSE << >>
    IN IF token # << >>
       THEN Put(headers, "Authorization", PyText(<<"Bearer ">> \o token))
       ELSE headers

_headers(cfg) ==
    LET headers == PyDict(<<[k |-> "Content-Type", v |-> PyStr("application/json")]>>)
        token == TrimmedToken(cfg)
    IN IF token # << >>
       THEN Put(headers, "Authorization", PyText(<<"Bearer ">> \o token))
       ELSE headers

\* what the HTTP library puts in the query string: it leaves out a parameter
\* whose value is None
EncodeParams(params) ==
    PyDict(SelectSeq(params.items, LAMBDA it : ~IsNone(it.v)))

\* the session.get(...) of poll
PollRequest(cfg, wait_sec) ==
    LET wait == IF IsNone(wait_sec) THEN cfg.wait_sec ELSE wait_sec
        params == PyDict(<<[k |-> "waitSec", v |-> wait]>>)
    IN [method |-> "GET",
        url |-> base_url(cfg) \o PollPath,
        params |-> params,
        query |-> EncodeParams(params),
        headers |-> _headers(cfg),
        timeout |-> cfg.timeout_sec]


\* send with "if emoji is not None" for "if emoji"
SendBody_not_none(reply, emoji) ==
    LET body == PyDict(<<[k |-> "reply", v |-> reply]>>) IN
    IF ~IsNone(emoji) THEN Put(body, "emoji", emoji) ELSE body

\* the body of send
SendBody(reply, emoji) ==
    LET body == PyDict(<<[k |-> "reply", v |-> reply]>>) IN
    IF Truthy(emoji) THEN Put(body, "emoji", emoji) ELSE body

\* the session.post(...) of send
SendRequest(cfg, reply, emoji) ==
    [method |-> "POST",
     url |-> base_url(cfg) \o SendPath,
     headers |-> _headers(cfg),
     data |-> Dumps(SendBody(reply, emoji)),
     timeout |-> cfg.timeout_sec]


\* a raise_for_status that lets the client errors (4xx) through
raise_for_status_server_only(resp) == 500 <= resp.status /\ resp.status < 600

\* response.raise_for_status() raises HTTPError for a client or server error
\* status (4xx, 5xx) and for no other
raise_for_status(resp) == 400 <= resp.status /\ resp.status < 600


\* how a call ends
Returned(value) == [kind |-> "return", value |-> value]
Raised(exc) == [kind |-> "raise", exc |-> exc]
NoResult == [kind |-> "none"]

\* returns a dict; an exception of response.json() that is no ValueError
\* passes through the except clause
_safe_json(resp) ==
    IF Strip(resp.text) = << >> THEN Returned(EmptyDict)
    ELSE LET data == Loads(resp.text) IN
         IF data.ok
         THEN IF IsDict(data.val)
              THEN Returned(data.val)
              ELSE Returned(PyDict(<<[k |-> "data", v |-> data.val]>>))
         ELSE IF data.exc = "ValueError"
              THEN Returned(PyDict(<<[k |-> "text", v |-> PyText(resp.text)]>>))
              ELSE Raised(data.exc)

\* poll taking messages[0] for messages[-1]
PollResult_first(payload) ==
    IF ~Truthy(payload) THEN PyNone
    ELSE LET message == Get(payload, "message")
             messages == Get(payload, "messages")
             found ==
                 IF ~Truthy(message) /\ Truthy(messages) /\ IsList(messages)
                 THEN LET latest == messages.xs[1] IN
                      IF IsDict(latest) THEN Get(latest, "content") ELSE message
                 ELSE message
         IN IF ~Truthy(found) THEN PyNone
            ELSE PyDict(<<[k |-> "text", v |-> found],
                          [k |-> "messages", v |-> messages],
                          [k |-> "raw", v |-> payload]>>)

\* poll with "if message is None" for the final "if not message"
PollResult_is_none(payload) ==
    IF ~Truthy(payload) THEN PyNone
    ELSE LET message == Get(payload, "message")
             messages == Get(payload, "messages")
             found ==
                 IF ~Truthy(message) /\ Truthy(messages) /\ IsList(messages)
                 THEN LET latest == messages.xs[Len(messages.xs)] IN
                      IF IsDict(latest) THEN Get(latest, "content") ELSE message
                 ELSE message
         IN IF IsNone(found) THEN PyNone
            ELSE PyDict(<<[k |-> "text", v |-> found],
                          [k |-> "messages", v |-> messages],
                          [k |-> "raw", v |-> payload]>>)

\* poll, from the decoded payload on: None or {text, messages, raw}
PollResult(payload) ==
    IF ~Truthy(payload) THEN PyNone
    ELSE LET message == Get(payload, "message")
             messages == Get(payload, "messages")
             found ==
                 IF ~Truthy(message) /\ Truthy(messages) /\ IsList(messages)
                 THEN LET latest == messages.xs[Len(messages.xs)] IN
                      IF IsDict(latest) THEN Get(latest, "content") ELSE message
                 ELSE message
         IN IF ~Truthy(found) THEN PyNone
            ELSE PyDict(<<[k |-> "text", v |-> found],
                          [k |-> "messages", v |-> messages],
                          [k |-> "raw", v |-> payload]>>)

\* poll, from the response on
PollOutcome(resp) ==
    IF raise_for_status(resp) THEN Raised("HTTPError")
    ELSE LET payload == _safe_json(resp) IN
         IF payload.kind = "raise" THEN payload
         ELSE Returned(PollResult(payload.value))

\* send, from the response on
SendOutcome(resp) ==
    IF raise_for_status(resp) THEN Raised("HTTPError")
    ELSE _safe_json(resp)

(***************************************************************************)
(* The command line                                                        *)
(*                                                                         *)
(* argv is held by option: an option not given is None.  The top-level     *)
(* parser fills its namespace (defaults, then the options given); the      *)
(* subcommand's parser fills a namespace of its own the same way, and      *)
(* every attribute of that namespace is then set on the top-level one.     *)
(***************************************************************************)
OrDefault(given, default) == IF IsNone(given) THEN default ELSE given

parse_args(command) ==
    LET top == [ip |-> command.ip,
                token |-> OrDefault(command.token, PyText(<< >>)),
                wait_sec |-> OrDefault(command.wait_sec, PyInt(DefaultWaitSec)),
                timeout_sec |-> OrDefault(command.timeout_sec, PyInt(DefaultTimeoutSec)),
                action |-> command.action]
    IN IF command.action = "poll"
       THEN [top EXCEPT !.wait_sec = OrDefault(command.sub_wait_sec, PyNone)]
       ELSE top @@ [reply |-> command.reply, emoji |-> OrDefault(command.emoji, PyNone)]

\* the WhisplayIMConfig main builds: token=args.token or None
MainConfig(a) ==
    WhisplayIMConfig(a.ip,
                     IF Truthy(a.token) THEN a.token ELSE PyNone,
                     a.wait_sec,
                     a.timeout_sec)

(***************************************************************************)
(* The state machine.                                                      *)
(*                                                                         *)
(* pc: "new" (nothing constructed), "idle" (a client, no call running),    *)
(* "poll_wait" / "send_wait" (the call has issued its request and blocks   *)
(* in the HTTP library), "exit" (the process has ended).                   *)
(* sent counts the requests the running (or last) call has issued, calls   *)
(* the calls that have ended.  argv is the command line.  request,         *)
(* response and result are those of the running (or last) call; stdout is  *)
(* what main has printed.                                                  *)
(***************************************************************************)
\* whether the process runs main (argv is None in a program that uses the class)
cli == argv # PyNone

NoResponse == [kind |-> "none"]
Response(status, text) == [status |-> status, text |-> text]

Init ==
    /\ pc = "new"
    /\ argv = PyNone
    /\ config = PyNone
    /\ args = PyNone
    /\ request = PyNone
    /\ sent = 0
    /\ response = NoResponse
    /\ result = NoResult
    /\ stdout = << >>
    /\ calls = 0

\* WhisplayIMChannel.__init__ when the HTTP library cannot be imported
MissingDependency ==
    /\ pc' = "exit"
    /\ result' = Raised("RuntimeError")
    /\ UNCHANGED <<config, args, request, sent, response, stdout, calls>>

\* poll up to the blocking session.get
StartPoll(cfg, wait_sec) ==
    /\ args' = [op |-> "poll", wait_sec |-> wait_sec]
    /\ request' = PollRequest(cfg, wait_sec)
    /\ sent' = 1
    /\ response' = NoResponse
    /\ result' = NoResult
    /\ pc' = "poll_wait"

\* send up to the blocking session.post
StartSend(cfg, reply, emoji) ==
    /\ args' = [op |-> "send", reply |-> reply, emoji |-> emoji]
    /\ request' = SendRequest(cfg, reply, emoji)
    /\ sent' = 1
    /\ response' = NoResponse
    /\ result' = NoResult
    /\ pc' = "send_wait"

\* the call ends: to the caller, or in main to print(json.dumps(result)) and
\* the end of the process (an exception ends it with nothing printed)
Finish(outcome) ==
    /\ result' = outcome
    /\ calls' = calls + 1
    /\ pc' = IF cli THEN "exit" ELSE "idle"
    /\ stdout' = IF cli /\ outcome.kind = "return"
                 THEN Append(stdout, Dumps(outcome.value))
                 ELSE stdout

\* channel = WhisplayIMChannel(config), by a program that uses the class
WhisplayIMChannel(cfg, installed) ==
    /\ pc = "new"
    /\ argv' = PyNone
    /\ IF installed
       THEN /\ pc' = "idle"
            /\ config' = cfg
            /\ UNCHANGED <<args, request, sent, response, result, stdout, calls>>
       ELSE MissingDependency

\* main: parse, build the client, start the one call of the subcommand
main(command, installed) ==
    /\ pc = "new"
    /\ argv' = command
    /\ LET a == parse_args(command)
           cfg == MainConfig(a)
       IN IF ~installed THEN MissingDependency
          ELSE /\ config' = cfg
               /\ IF a.action = "poll"
                  THEN StartPoll(cfg, a.wait_sec)
                  ELSE StartSend(cfg, a.reply, a.emoji)
               /\ UNCHANGED <<stdout, calls>>

poll(wait_sec) ==
    /\ pc = "idle"
    /\ calls < MaxCalls
    /\ StartPoll(config, wait_sec)
    /\ UNCHANGED <<argv, config, stdout, calls>>

send(reply, emoji) ==
    /\ pc = "idle"
    /\ calls < MaxCalls
    /\ StartSend(config, reply, emoji)
    /\ UNCHANGED <<argv, config, stdout, calls>>


\* poll asking once more after an HTTP status error
poll_response_retry(resp) ==
    /\ pc = "poll_wait"
    /\ response' = resp
    /\ IF raise_for_status(resp) /\ sent < 2
       THEN /\ sent' = sent + 1
            /\ UNCHANGED <<pc, result, stdout, calls>>
       ELSE /\ Finish(PollOutcome(resp))
            /\ UNCHANGED sent
    /\ UNCHANGED <<argv, config, args, request>>

\* the response to poll's request arrives
poll_response(resp) ==
    /\ pc = "poll_wait"
    /\ response' = resp
    /\ Finish(PollOutcome(resp))
    /\ UNCHANGED <<argv, config, args, request, sent>>

\* the response to send's request arrives
send_response(resp) ==
    /\ pc = "send_wait"
    /\ response' = resp
    /\ Finish(SendOutcome(resp))
    /\ UNCHANGED <<argv, config, args, request, sent>>

\* no response: the HTTP library raises Timeout or ConnectionError, which
\* poll and send let through
network_error(exc) ==
    /\ pc \in {"poll_wait", "send_wait"}
    /\ Finish(Raised(exc))
    /\ UNCHANGED <<argv, config, args, request, sent, response>>

(***************************************************************************)
(* Inputs                                                                  *)
(***************************************************************************)
SeqsUpTo(A, n) == UNION {[1..k -> A] : k \in 0..n}

NetworkErrors == {"Timeout", "ConnectionError"}

Statuses == {101, 200, 204, 304, 404, 500}

Msg(content) == PyDict(<<[k |-> "content", v |-> content]>>)
OnlyMessage(m) == PyDict(<<[k |-> "message", v |-> m]>>)
OnlyMessages(ms) == PyDict(<<[k |-> "messages", v |-> ms]>>)
Both(m, ms) == PyDict(<<[k |-> "message", v |-> m], [k |-> "messages", v |-> ms]>>)

\* decoded payloads a bridge may answer with
Payloads ==
    {EmptyDict,
     OnlyMessage(PyStr("hi")), OnlyMessage(PyStr("")), OnlyMessage(PyNone),
     OnlyMessage(PyInt(1)), OnlyMessage(PyInt(0)), OnlyMessage(PyBool(TRUE)),
     OnlyMessage(PyList(<<PyInt(1)>>)),
     Both(PyStr("hi"), PyList(<<Msg(PyStr("b"))>>)),
     Both(PyStr("hi"), PyList(<< >>)),
     Both(PyStr(""), PyList(<<Msg(PyStr("b"))>>)),
     Both(PyNone, PyList(<<Msg(PyStr("b"))>>)),
     Both(PyBool(FALSE), PyList(<<Msg(PyStr("a")), Msg(PyStr("b"))>>)),
     OnlyMessages(PyList(<<Msg(PyStr("a")), Msg(PyStr("b"))>>)),
     OnlyMessages(PyList(<<Msg(PyStr("a")), Msg(PyStr(""))>>)),
     OnlyMessages(PyList(<<Msg(PyStr("a")), PyInt(1)>>)),
     OnlyMessages(PyList(<<Msg(PyStr("a")), EmptyDict>>)),
     OnlyMessages(PyList(<<Msg(PyStr("a")),
                           PyDict(<<[k |-> "other", v |-> PyStr("b")]>>)>>)),
     OnlyMessages(PyList(<<Msg(PyInt(1))>>)),
     OnlyMessages(PyList(<<Msg(PyNone)>>)),
     OnlyMessages(PyList(<< >>)),
     OnlyMessages(PyStr("ab")),
     OnlyMessages(Msg(PyStr("a"))),
     OnlyMessages(PyNone),
     PyDict(<<[k |-> "other", v |-> PyInt(1)]>>),
     PyList(<<PyInt(1)>>), PyList(<< >>), PyInt(1), PyInt(0), PyStr("hi"),
     PyNone, PyBool(TRUE)}

\* arrays opened one in the other, more of them than the decoder can enter
DeepBody == <<Run("[", 2 * RecursionLimit)>>

\* response bodies: the payloads as JSON text, bare or padded with whitespace,
\* and bodies that are empty, blank or no JSON
Bodies ==
    {Dumps(v) : v \in Payloads}
    \cup {<<W(" ")>> \o Dumps(OnlyMessage(PyStr("hi"))) \o <<W("\n")>>,
          <<W("\f")>> \o Dumps(OnlyMessage(PyStr("hi"))),
          << >>, <<W(" ")>>, <<W("\f"), W("\n")>>,
          <<X("not json")>>, <<W(" "), X("not json"), W(" ")>>,
          <<P("{"), S("message"), P(":")>>,
          DeepBody}

Responses == {Response(st, b) : st \in Statuses, b \in Bodies}

Addrs == {<<"a">>, <<" ", "https:", "/", "/", "a", "/">>}
Tokens == {PyNone, PyText(<<"t">>)}

Configs ==
    {WhisplayIMConfig(ip, token, PyInt(DefaultWaitSec), PyInt(DefaultTimeoutSec)) :
        ip \in Addrs, token \in Tokens}

Waits == {PyNone, PyInt(7)}
Replies == {PyStr(""), PyStr("hello")}
Emojis == {PyNone, PyStr(""), PyStr("smile")}

\* command lines: an option that is not given is None
Argvs ==
    {[ip |-> <<"a">>, token |-> tk, wait_sec |-> w, timeout_sec |-> PyNone,
      action |-> "poll", sub_wait_sec |-> sw, reply |-> PyNone, emoji |-> PyNone] :
        tk \in {PyNone, PyText(<< >>), PyText(<<"t">>)},
        w \in {PyNone, PyInt(10)}, sw \in {PyNone, PyInt(5)}}
    \cup
    {[ip |-> <<"a">>, token |-> PyNone, wait_sec |-> w, timeout_sec |-> to,
      action |-> "send", sub_wait_sec |-> PyNone, reply |-> r, emoji |-> e] :
        w \in {PyNone, PyInt(10)}, to \in {PyNone, PyInt(40)},
        r \in Replies, e \in Emojis}

Next ==
    \/ pc = "new" /\ \E cfg \in Configs, installed \in BOOLEAN :
                        WhisplayIMChannel(cfg, installed)
    \/ pc = "new" /\ \E command \in Argvs, installed \in BOOLEAN :
                        main(command, installed)
    \/ \E w \in Waits : poll(w)
    \/ \E r \in Replies, e \in Emojis : send(r, e)
    \/ pc = "poll_wait" /\ \E resp \in Responses : poll_response(resp)
    \/ pc = "send_wait" /\ \E resp \in Responses : send_response(resp)
    \/ \E exc \in NetworkErrors : network_error(exc)

Spec == Init /\ [][Next]_vars

(***************************************************************************)
(* Every address and every token up to a length, each with the first call  *)
(* of a client, of either kind: the specification of the claims about      *)
(* base_url and _headers.                                                  *)
(***************************************************************************)
AddrChars == {" ", "/", "http:", "https:", "a"}
TokenChars == {" ", "t"}

WideAddrs == SeqsUpTo(AddrChars, MaxAddrLen)
WideTokens == {PyNone} \cup {PyText(cs) : cs \in SeqsUpTo(TokenChars, MaxTokenLen)}

WideConfigs ==
    {WhisplayIMConfig(ip, PyNone, PyInt(DefaultWaitSec), PyInt(DefaultTimeoutSec)) :
        ip \in WideAddrs}
    \cup
    {WhisplayIMConfig(<<"a">>, token, PyInt(DefaultWaitSec), PyInt(DefaultTimeoutSec)) :
        token \in WideTokens}

WideArgvs ==
    {[ip |-> <<"a">>, token |-> tk, wait_sec |-> PyNone, timeout_sec |-> PyNone,
      action |-> "send", sub_wait_sec |-> PyNone, reply |-> PyStr("hello"),
      emoji |-> PyNone] : tk \in WideTokens}
    \cup
    {[ip |-> ip, token |-> PyNone, wait_sec |-> PyNone, timeout_sec |-> PyNone,
      action |-> "poll", sub_wait_sec |-> PyInt(5), reply |-> PyNone,
      emoji |-> PyNone] : ip \in WideAddrs}

NextConfig ==
    \/ pc = "new" /\ \E cfg \in WideConfigs, installed \in BOOLEAN :
                        WhisplayIMChannel(cfg, installed)
    \/ pc = "new" /\ \E command \in WideArgvs, installed \in BOOLEAN :
                        main(command, installed)
    \/ calls = 0 /\ poll(PyNone)
    \/ calls = 0 /\ send(PyStr("hello"), PyNone)
    \/ poll_response(Response(200, << >>))
    \/ send_response(Response(200, << >>))
    \/ network_error("Timeout")

SpecConfig == Init /\ [][NextConfig]_vars

(***************************************************************************)
(* Every response body up to a length (and the bodies of Bodies), answered *)
(* with status 200 to the first call of one client: the specification of   *)
(* the claim about _safe_json.                                             *)
(***************************************************************************)
BodyChars ==
    {W(" "), W("\f"), P("{"), P("}"), P("["), P("]"), P(","), P(":"),
     N(1), S("a"), L("null"), X("x")}

WideBodies == SeqsUpTo(BodyChars, MaxBodyLen) \cup Bodies

OneConfig ==
    WhisplayIMConfig(<<"a">>, PyNone, PyInt(DefaultWaitSec), PyInt(DefaultTimeoutSec))

NextBody ==
    \/ WhisplayIMChannel(OneConfig, TRUE)
    \/ calls = 0 /\ poll(PyNone)
    \/ calls = 0 /\ send(PyStr("hello"), PyNone)
    \/ pc = "poll_wait" /\ \E b \in WideBodies : poll_response(Response(200, b))
    \/ pc = "send_wait" /\ \E b \in WideBodies : send_response(Response(200, b))

SpecBody == Init /\ [][NextBody]_vars

(***************************************************************************)
(* Properties                                                              *)
(***************************************************************************)
Waiting == {"poll_wait", "send_wait"}

\* a call of the given kind has ended with a response of the given statuses
Answered(op, statuses) ==
    /\ pc \notin Waiting
    /\ args # PyNone
    /\ args.op = op
    /\ response # NoResponse
    /\ response.status \in statuses

Success == 200..299
ClientOrServerError == 400..599

HasScheme(url) == StartsWith(url, HttpScheme) \/ StartsWith(url, HttpsScheme)

\* C1: for every address given to the configuration, the derived base URL
\* starts with "http://" or "https://" and does not end with "/".
C1_BaseUrlSchemeNoSlash ==
    request # PyNone =>
        /\ HasScheme(base_url(config))
        /\ ~EndsWithSlash(base_url(config))

Decodes(resp) == _safe_json(resp).kind = "return"

\* the last element of a list
Last(xs) == xs[Len(xs)]

\* messages is a non-empty list whose last element is a mapping
LastIsMapping(messages) ==
    /\ IsList(messages)
    /\ messages.xs # << >>
    /\ IsDict(Last(messages.xs))

\* C3 (as amended): on a 2xx poll response whose decoded payload has a truthy
\* message value, the result text is that value; the content of the LAST
\* element of messages is the text only when message is absent or falsy
\* (null, "", 0, false, empty) and messages is a non-empty list whose last
\* element is a mapping.
C3_MessageThenLastContent ==
    (Answered("poll", Success) /\ Decodes(response)) =>
        LET payload == _safe_json(response).value
            message == Get(payload, "message")
            messages == Get(payload, "messages")
            r == result.value
        IN /\ result.kind = "return"
           /\ Truthy(message) => (r # PyNone /\ Get(r, "text") = message)
           /\ (~Truthy(message) /\ r # PyNone) =>
                 /\ LastIsMapping(messages)
                 /\ Get(r, "text") = Get(Last(messages.xs), "content")

C3_Witness ==
    /\ Answered("poll", Success)
    /\ response.text = Dumps(Both(PyStr(""), PyList(<<Msg(PyStr("b"))>>)))
    /\ result.value # PyNone
    /\ Get(result.value, "text") = PyStr("b")

\* C3 (as stated): on a 2xx poll response whose decoded payload has a message
\* field, the result text is that message value; the content of the last
\* element of messages is the text only when the message field is absent.
C3_PresentMessageWins ==
    (Answered("poll", Success) /\ Decodes(response)) =>
        LET payload == _safe_json(response).value
            message == Get(payload, "message")
            messages == Get(payload, "messages")
            r == result.value
        IN /\ result.kind = "return"
           /\ (HasKey(payload, "message") /\ r # PyNone) => Get(r, "text") = message
           /\ (~HasKey(payload, "message") /\ r # PyNone) =>
                 /\ LastIsMapping(messages)
                 /\ Get(r, "text") = Get(Last(messages.xs), "content")

\* a message text is found: a truthy message, or else a truthy content in the
\* last element of the list messages
MessageFound(payload) ==
    \/ Truthy(Get(payload, "message"))
    \/ /\ LastIsMapping(Get(payload, "messages"))
       /\ Truthy(Get(Last(Get(payload, "messages").xs), "content"))

\* the result poll returns for a payload with a message text
IsPollResultOf(r, payload) ==
    /\ IsDict(r)
    /\ Keys(r) = {"text", "messages", "raw"}
    /\ Get(r, "messages") = Get(payload, "messages")
    /\ Get(r, "raw") = payload

\* C4 (as amended): on a 2xx poll response whose body the JSON-safety helper
\* decodes, poll returns null and raises no error exactly when no message text
\* is found, that is when message is absent or falsy and messages is absent,
\* not a list, empty, its last element not a mapping, or that mapping's content
\* absent or falsy (this covers the empty body, the payload {} and a body that
\* is no JSON mapping); in every other such case it returns a result whose
\* messages is the payload's messages value unchanged (null when absent) and
\* whose raw is the full decoded payload.  When the helper raises (C5), poll
\* raises the same exception.
C4_NullIffNoMessageFound ==
    Answered("poll", Success) =>
        LET payload == _safe_json(response) IN
        IF payload.kind = "raise" THEN result = payload
        ELSE /\ result.kind = "return"
             /\ IF MessageFound(payload.value)
                THEN IsPollResultOf(result.value, payload.value)
                ELSE result.value = PyNone

C4_Witness ==
    /\ Answered("poll", Success)
    /\ response.text = Dumps(OnlyMessages(PyList(<<Msg(PyStr("a")), Msg(PyStr(""))>>)))
    /\ result = Returned(PyNone)

\* every character of the body is whitespace
Blank(body) == \A i \in 1..Len(body) : IsSpace(body[i])

\* the 'no message' cases the claim lists, for a payload without message
ListedNoMessage(body, payload) ==
    LET messages == Get(payload, "messages") IN
    /\ ~HasKey(payload, "message")
    /\ \/ Blank(body)
       \/ payload = EmptyDict
       \/ HasKey(payload, "messages") /\ messages = PyList(<< >>)
       \/ /\ IsList(messages)
          /\ messages.xs # << >>
          /\ \/ ~IsDict(Last(messages.xs))
             \/ ~HasKey(Last(messages.xs), "content")

\* C4 (as stated, for the bodies the JSON-safety helper decodes): on a 2xx
\* poll response, poll returns null in the listed 'no message' cases (blank
\* body, {}, messages empty, last element no mapping, mapping without content)
\* and in every other 2xx case it returns a result with the payload's messages
\* and the payload as raw.
C4_NullOnlyInListedCases ==
    (Answered("poll", Success) /\ Decodes(response)) =>
        LET payload == _safe_json(response).value IN
        /\ result.kind = "return"
        /\ IF ListedNoMessage(response.text, payload)
           THEN result.value = PyNone
           ELSE IsPollResultOf(result.value, payload)

\* C5: for every response body the JSON-safety helper returns a mapping and
\* does not raise: {} for a blank body, the mapping itself for a body that is
\* a JSON mapping, {"data": v} for a body that is another JSON value v, and
\* {"text": body} (untrimmed) for a body that is no JSON.
C5_SafeJsonTotal ==
    Answered("send", Success) =>
        LET body == response.text
            parsed == Loads(body)
            v == result.value
        IN /\ result.kind = "return"
           /\ IsDict(v)
           /\ Blank(body) => v = EmptyDict
           /\ (~Blank(body) /\ parsed.ok /\ IsDict(parsed.val)) => v = parsed.val
           /\ (~Blank(body) /\ parsed.ok /\ ~IsDict(parsed.val)) =>
                 v = PyDict(<<[k |-> "data", v |-> parsed.val]>>)
           /\ (~Blank(body) /\ ~parsed.ok) =>
                 v = PyDict(<<[k |-> "text", v |-> PyText(body)]>>)

\* the characters of a token from its first to its last non-blank one
TrimmedChars(token) ==
    IF IsNone(token) \/ \A i \in 1..Len(token.chars) : token.chars[i] = " "
    THEN << >>
    ELSE LET inked == {i \in 1..Len(token.chars) : token.chars[i] # " "}
             first == CHOOSE i \in inked : \A j \in inked : i <= j
             last == CHOOSE i \in inked : \A j \in inked : j <= i
         IN SubSeq(token.chars, first, last)

\* C6: every request of poll or send carries Authorization if and only if
\* the configured token is non-empty after trimming; its value is then
\* "Bearer " and the trimmed token; the only other header is
\* Content-Type: application/json.
C6_AuthorizationIffToken ==
    request # PyNone =>
        LET headers == request.headers
            token == TrimmedChars(config.token)
        IN /\ HasKey(headers, "Authorization") <=> token # << >>
           /\ HasKey(headers, "Authorization") =>
                 Get(headers, "Authorization") = PyText(<<"Bearer ">> \o token)
           /\ Get(headers, "Content-Type") = PyStr("application/json")
           /\ Keys(headers) \subseteq {"Content-Type", "Authorization"}

C6_Witness ==
    /\ pc = "poll_wait"
    /\ config.token = PyText(<<" ", "t", " ">>)
    /\ Get(request.headers, "Authorization") = PyText(<<"Bearer ", "t">>)

\* C7: the body of every send request is a JSON mapping with the key reply
\* holding the given reply (also an empty one), with the key emoji holding the
\* given emoji if and only if an emoji is given and non-empty, and with no
\* other key; on a 2xx response send returns the JSON-safe-parsed body.
C7_SendBodyAndResult ==
    (args # PyNone /\ args.op = "send") =>
        LET body == Loads(request.data)
            given == ~IsNone(args.emoji) /\ args.emoji.s # ""
        IN /\ body.ok
           /\ IsDict(body.val)
           /\ HasKey(body.val, "reply")
           /\ Get(body.val, "reply") = args.reply
           /\ HasKey(body.val, "emoji") <=> given
           /\ given => Get(body.val, "emoji") = args.emoji
           /\ Keys(body.val) \subseteq {"reply", "emoji"}
           /\ Answered("send", Success) => result = _safe_json(response)

C7_Witness ==
    /\ Answered("send", Success)
    /\ args.reply = PyStr("")
    /\ args.emoji = PyStr("")
    /\ request.data = <<P("{"), S("reply"), P(":"), W(" "), S(""), P("}")>>
    /\ result = Returned(PyDict(<<[k |-> "data", v |-> PyList(<<PyInt(1)>>)]>>))

\* C8: whenever poll returns a non-null result, its text is a string.
C8_TextIsString ==
    (pc \notin Waiting /\ args # PyNone /\ args.op = "poll"
        /\ result.kind = "return" /\ result.value # PyNone) =>
        IsStr(Get(result.value, "text"))

\* C9: the waitSec sent by the command-line poll subcommand is the
\* subcommand's --wait-sec when given, otherwise the global --wait-sec when
\* given, otherwise 30; a waitSec query parameter is sent in all three cases.
C9_WaitSecPrecedence ==
    (cli /\ argv.action = "poll" /\ request # PyNone) =>
        Get(request.query, "waitSec") =
            IF ~IsNone(argv.sub_wait_sec) THEN argv.sub_wait_sec
            ELSE IF ~IsNone(argv.wait_sec) THEN argv.wait_sec
            ELSE PyInt(DefaultWaitSec)

====
